---- MODULE Spec2Model ----
(***************************************************************************)
(* The snake game of src/components/SnakeGame3D.tsx (SnakeGame.tsx is the  *)
(* same game without the achievements and without the WASD key aliases).   *)
(*                                                                         *)
(* The state is the component's React state plus localStorage and the      *)
(* pending level-up timeouts.  Every handler (interval callback, keydown   *)
(* listener, button click, timeout callback) is one action: a handler      *)
(* reads the values its closure captured at the last render, i.e. the      *)
(* unprimed variables, and its setState calls give the primed ones.        *)
(***************************************************************************)
EXTENDS Integers, Sequences, FiniteSets, TLC

\* ---------------------------------------------------------------- constants
GRID_SIZE == 20
INITIAL_SPEED == 150

\* ------------------------------------------------------------------- bounds
\* Handlers of the interval that get past the early return, since page load.
MaxMoves == 5

\* The same, for the player who chases the food.
MaxChaseMoves == 46

\* The same, for the player who roams.
MaxRoamMoves == 17

\* The same, for the games played on whatever the page finds stored.
MaxLoadMoves == 16

\* The same, for the games that end with the component's unmount.
MaxIntervalMoves == 15

VARIABLES
    snake,          \* Position[]: head first
    food,           \* Position
    obstacles,      \* Obstacle[]
    direction,      \* Position (unit vector)
    nextDirection,  \* Position (unit vector)
    gameOver,
    score,
    highScore,      \* a JS number: see Num / NaN
    level,
    speed,
    isPaused,
    showLevelUp,
    achievements,   \* Achievement[]: records [id, unlocked]
    timers,         \* number of pending setTimeout callbacks of levelUp
    lsHighScore,    \* localStorage["snakeHighScore"]
    lsAchievements, \* localStorage["snakeAchievements"]
    toasts,         \* per achievement id, how often its unlock toast was shown
    moves,          \* bookkeeping for MaxMoves
    crashed,        \* an uncaught error has unmounted the component
    frame,          \* the running call of a position sampler, loop by loop
    intervals,      \* the live timers of setInterval, in the order of creation
    mounted         \* the component is mounted

vars == <<snake, food, obstacles, direction, nextDirection, gameOver, score,
          highScore, level, speed, isPaused, showLevelUp, achievements, timers,
          lsHighScore, lsAchievements, toasts, moves, crashed, frame, intervals,
          mounted>>

\* What no handler of the game assigns: the handlers run while the component
\* is mounted, and a sampler called from a handler is followed to its return
\* within the handler's step.
aside == <<crashed, frame, mounted>>

\* What gameLoop's useCallback depends on: its own dependencies and, through
\* levelUp, the snake.
GameLoopDeps ==
    <<nextDirection, food, score, gameOver, isPaused, highScore, obstacles, level,
      snake>>

\* the cleanup that clears nothing
ClearInterval_Nothing(live) == live

\* The cleanup of the interval effect: clearInterval(gameLoopRef.current),
\* the ref holding the timer created last.
ClearInterval(live) ==
    IF live = <<>> THEN <<>> ELSE SubSeq(live, 1, Len(live) - 1)

\* The interval effect after the render that follows a handler: when gameLoop
\* or speed changed, its cleanup and then setInterval(gameLoop, speed).
IntervalEffect ==
    intervals' =
        IF GameLoopDeps' # GameLoopDeps \/ speed' # speed
        THEN Append(ClearInterval(intervals), [delay |-> speed'])
        ELSE intervals

\* the render after a handler, and its effects
Rendered ==
    /\ UNCHANGED aside
    /\ IntervalEffect

\* ------------------------------------------------------------ JS numbers
\* A JS number as far as the game needs it: an integer or NaN.
Num(n) == [nan |-> FALSE, n |-> n]
NaN == [nan |-> TRUE, n |-> 0]

\* a > b of JS: false as soon as one side is NaN
JsGt(a, b) == ~a.nan /\ ~b.nan /\ a.n > b.n

\* ---------------------------------------------------------- localStorage
\* A stored item: absent (getItem gives null) or a string, as a sequence of
\* one-character strings.
Absent == [present |-> FALSE, value |-> <<>>]
Stored(s) == [present |-> TRUE, value |-> s]

\* truthiness of what getItem returns: null and "" are falsy
Truthy(item) == item.present /\ item.value # <<>>

Digits == <<"0", "1", "2", "3", "4", "5", "6", "7", "8", "9">>

DigitVal(c) == CHOOSE d \in 0..9 : Digits[d + 1] = c

IsDigit(c) == \E d \in 0..9 : Digits[d + 1] = c

\* Number.prototype.toString of a non-negative integer
RECURSIVE NumToString(_)
NumToString(n) ==
    IF n < 10 THEN <<Digits[n + 1]>>
    ELSE NumToString(n \div 10) \o <<Digits[(n % 10) + 1]>>

\* value of the longest prefix of digits of s, given the value acc so far
RECURSIVE ParseDigits(_, _)
ParseDigits(s, acc) ==
    IF s = <<>> \/ ~IsDigit(Head(s)) THEN acc
    ELSE ParseDigits(Tail(s), 10 * acc + DigitVal(Head(s)))

RECURSIVE SkipSpaces(_)
SkipSpaces(s) ==
    IF s # <<>> /\ Head(s) = " " THEN SkipSpaces(Tail(s)) ELSE s

\* parseInt(s) with no radix: leading white space, an optional sign, then the
\* longest run of decimal digits; NaN when there is no digit
ParseInt(s) ==
    LET t == SkipSpaces(s)
        neg == t # <<>> /\ Head(t) = "-"
        u == IF t # <<>> /\ Head(t) \in {"-", "+"} THEN Tail(t) ELSE t
    IN  IF u = <<>> \/ ~IsDigit(Head(u)) THEN NaN
        ELSE Num(IF neg THEN 0 - ParseDigits(u, 0) ELSE ParseDigits(u, 0))

\* ------------------------------------------------------------------ grid
Pos(x, y) == <<x, y>>

Grid == (0..(GRID_SIZE - 1)) \X (0..(GRID_SIZE - 1))

Add(p, d) == <<p[1] + d[1], p[2] + d[2]>>

Cells(s) == {s[i] : i \in 1..Len(s)}

Up == <<0, -1>>
Down == <<0, 1>>
Left == <<-1, 0>>
Right == <<1, 0>>

InitialSnake == <<Pos(10, 10)>>
InitialFood == Pos(15, 15)

Dirs == {Up, Down, Left, Right}

\* ---------------------------------------------------------- achievements
ACHIEVEMENTS ==
    << [id |-> "first_food", unlocked |-> FALSE],
       [id |-> "score_50", unlocked |-> FALSE],
       [id |-> "score_100", unlocked |-> FALSE],
       [id |-> "score_200", unlocked |-> FALSE],
       [id |-> "level_5", unlocked |-> FALSE],
       [id |-> "level_10", unlocked |-> FALSE],
       [id |-> "long_snake", unlocked |-> FALSE] >>

AchIds == {ACHIEVEMENTS[i].id : i \in 1..Len(ACHIEVEMENTS)}

\* The achievement side of the state, threaded through the calls of
\* unlockAchievement: the array, the stored item and the toasts shown.
AchState == [achs |-> achievements, ls |-> lsAchievements, shown |-> toasts]

\* JSON.stringify of the array, as the sequence of the tokens of its text; of a
\* record the text keeps the id and the unlocked flag.
JsonBool(b) == IF b THEN "true" ELSE "false"

RECURSIVE JsonRecords(_)
JsonRecords(achs) ==
    IF achs = <<>> THEN <<>>
    ELSE <<"{", Head(achs).id, ":", JsonBool(Head(achs).unlocked), "}">>
            \o JsonRecords(Tail(achs))

JsonStringify(achs) == <<"[">> \o JsonRecords(achs) \o <<"]">>

\* the records a run of tokens spells, ok being false when it spells none
RECURSIVE ParseRecords(_)
ParseRecords(t) ==
    IF t = <<>> THEN [ok |-> TRUE, value |-> <<>>]
    ELSE IF /\ Len(t) >= 5
            /\ t[1] = "{" /\ t[3] = ":" /\ t[4] \in {"true", "false"} /\ t[5] = "}"
    THEN LET rest == ParseRecords(SubSeq(t, 6, Len(t)))
         IN  [ok |-> rest.ok,
              value |-> <<[id |-> t[2], unlocked |-> t[4] = "true"]>> \o rest.value]
    ELSE [ok |-> FALSE, value |-> <<>>]

\* JSON.parse of a text: the array it spells, the value null, or a thrown
\* SyntaxError (ok false)
JsonParse(text) ==
    IF text = <<"null">> THEN [ok |-> TRUE, array |-> FALSE, value |-> <<>>]
    ELSE IF Len(text) >= 2 /\ text[1] = "[" /\ text[Len(text)] = "]"
    THEN LET records == ParseRecords(SubSeq(text, 2, Len(text) - 1))
         IN  [ok |-> records.ok, array |-> TRUE, value |-> records.value]
    ELSE [ok |-> FALSE, array |-> FALSE, value |-> <<>>]

\* unlockAchievement showing the toast whenever the id matches
unlockAchievement_Renotify(st, achievementId) ==
    LET hit(i) == st.achs[i].id = achievementId
        updated == [i \in DOMAIN st.achs |->
                       IF hit(i) THEN [st.achs[i] EXCEPT !.unlocked = TRUE]
                       ELSE st.achs[i]]
        n == Cardinality({i \in DOMAIN st.achs : hit(i)})
    IN  [achs |-> updated,
         ls |-> Stored(JsonStringify(updated)),
         shown |-> [a \in DOMAIN st.shown |->
                       IF a = achievementId THEN st.shown[a] + n ELSE st.shown[a]]]

\* unlockAchievement storing the array it was given
unlockAchievement_StoresPrev(st, achievementId) ==
    LET hit(i) == st.achs[i].id = achievementId /\ ~st.achs[i].unlocked
        updated == [i \in DOMAIN st.achs |->
                       IF hit(i) THEN [st.achs[i] EXCEPT !.unlocked = TRUE]
                       ELSE st.achs[i]]
        n == Cardinality({i \in DOMAIN st.achs : hit(i)})
    IN  [achs |-> updated,
         ls |-> Stored(JsonStringify(st.achs)),
         shown |-> [a \in DOMAIN st.shown |->
                       IF a = achievementId THEN st.shown[a] + n ELSE st.shown[a]]]

\* setAchievements(prev => ...): unlock the record of that id if it is
\* locked (with a toast), and store the whole updated array either way
unlockAchievement(st, achievementId) ==
    LET hit(i) == st.achs[i].id = achievementId /\ ~st.achs[i].unlocked
        updated == [i \in DOMAIN st.achs |->
                       IF hit(i) THEN [st.achs[i] EXCEPT !.unlocked = TRUE]
                       ELSE st.achs[i]]
        n == Cardinality({i \in DOMAIN st.achs : hit(i)})
    IN  [achs |-> updated,
         ls |-> Stored(JsonStringify(updated)),
         shown |-> [a \in DOMAIN st.shown |->
                       IF a = achievementId THEN st.shown[a] + n ELSE st.shown[a]]]

UnlockIf(cond, st, achievementId) ==
    IF cond THEN unlockAchievement(st, achievementId) ELSE st

\* checkAchievements with strict comparisons
checkAchievements_Strict(st, currentScore, currentLevel, snakeLength) ==
    LET s1 == UnlockIf(currentScore > 10, st, "first_food")
        s2 == UnlockIf(currentScore > 50, s1, "score_50")
        s3 == UnlockIf(currentScore > 100, s2, "score_100")
        s4 == UnlockIf(currentScore > 200, s3, "score_200")
        s5 == UnlockIf(currentLevel > 5, s4, "level_5")
        s6 == UnlockIf(currentLevel > 10, s5, "level_10")
    IN  UnlockIf(snakeLength > 15, s6, "long_snake")

checkAchievements(st, currentScore, currentLevel, snakeLength) ==
    LET s1 == UnlockIf(currentScore >= 10, st, "first_food")
        s2 == UnlockIf(currentScore >= 50, s1, "score_50")
        s3 == UnlockIf(currentScore >= 100, s2, "score_100")
        s4 == UnlockIf(currentScore >= 200, s3, "score_200")
        s5 == UnlockIf(currentLevel >= 5, s4, "level_5")
        s6 == UnlockIf(currentLevel >= 10, s5, "level_10")
    IN  UnlockIf(snakeLength >= 15, s6, "long_snake")

\* ------------------------------------------------------ position sampling
\* generateFood testing the obstacles only
generateFood_ObstaclesOnly(currentSnake, currentObstacles, draws) ==
    {c \in draws : c \notin Cells(currentObstacles)}

\* generateFood testing the snake only
generateFood_SnakeOnly(currentSnake, currentObstacles, draws) ==
    {c \in draws : c \notin Cells(currentSnake)}

\* What the do-while of generateFood can return when Math.random yields the
\* cells of draws: the draws that are on no snake segment and no obstacle.
generateFood(currentSnake, currentObstacles, draws) ==
    {c \in draws : c \notin Cells(currentSnake) /\ c \notin Cells(currentObstacles)}

\* generateObstacles without the test against the obstacles pushed so far
RECURSIVE generateObstaclesFrom_Repeats(_, _, _, _)
generateObstaclesFrom_Repeats(newObstacles, count, currentSnake, draws) ==
    IF Len(newObstacles) >= count THEN {newObstacles}
    ELSE UNION { generateObstaclesFrom_Repeats(Append(newObstacles, c), count,
                                               currentSnake, draws) :
                    c \in {d \in draws[Len(newObstacles) + 1] :
                              d \notin Cells(currentSnake)} }

\* The arrays generateObstacles can return from newObstacles on, when the
\* draws of the i-th round are the cells of draws[i]: each round keeps a draw
\* that is on no snake segment and is none of the obstacles pushed so far.
RECURSIVE generateObstaclesFrom(_, _, _, _)
generateObstaclesFrom(newObstacles, count, currentSnake, draws) ==
    IF Len(newObstacles) >= count THEN {newObstacles}
    ELSE UNION { generateObstaclesFrom(Append(newObstacles, c), count, currentSnake, draws) :
                    c \in {d \in draws[Len(newObstacles) + 1] :
                              /\ d \notin Cells(currentSnake)
                              /\ d \notin Cells(newObstacles)} }

generateObstacles(count, currentSnake, draws) ==
    generateObstaclesFrom(<<>>, count, currentSnake, draws)

\* ------------------------------------------------------------- collision
\* checkCollision without the walls
checkCollision_NoWall(head, body, currentObstacles) ==
    IF \E i \in 1..Len(body) : body[i] = head
    THEN TRUE
    ELSE IF \E i \in 1..Len(currentObstacles) : currentObstacles[i] = head
    THEN TRUE
    ELSE FALSE

\* checkCollision without the snake's own body
checkCollision_NoSelf(head, body, currentObstacles) ==
    IF head[1] < 0 \/ head[1] >= GRID_SIZE \/ head[2] < 0 \/ head[2] >= GRID_SIZE
    THEN TRUE
    ELSE IF \E i \in 1..Len(currentObstacles) : currentObstacles[i] = head
    THEN TRUE
    ELSE FALSE

\* checkCollision taking GRID_SIZE itself for a coordinate of the grid
checkCollision_Inclusive(head, body, currentObstacles) ==
    IF head[1] < 0 \/ head[1] > GRID_SIZE \/ head[2] < 0 \/ head[2] > GRID_SIZE
    THEN TRUE
    ELSE IF \E i \in 1..Len(body) : body[i] = head
    THEN TRUE
    ELSE IF \E i \in 1..Len(currentObstacles) : currentObstacles[i] = head
    THEN TRUE
    ELSE FALSE

checkCollision(head, body, currentObstacles) ==
    IF head[1] < 0 \/ head[1] >= GRID_SIZE \/ head[2] < 0 \/ head[2] >= GRID_SIZE
    THEN TRUE
    ELSE IF \E i \in 1..Len(body) : body[i] = head
    THEN TRUE
    ELSE IF \E i \in 1..Len(currentObstacles) : currentObstacles[i] = head
    THEN TRUE
    ELSE FALSE

Max(a, b) == IF a >= b THEN a ELSE b

\* ------------------------------------------------------------------ load
\* useEffect(..., []) after the first render: the stored high score
LoadHighScore(savedHighScore) ==
    IF Truthy(savedHighScore) THEN ParseInt(savedHighScore.value) ELSE Num(0)

\* the stored achievements: what JSON.parse gives, the initial array when
\* nothing is stored
LoadAchievements(savedAchievements) ==
    IF Truthy(savedAchievements) THEN JsonParse(savedAchievements.value)
    ELSE [ok |-> TRUE, array |-> TRUE, value |-> ACHIEVEMENTS]

\* The load does not complete: JSON.parse throws inside the effect, or the
\* next render calls achievements.filter on a value that is no array.
LoadCrashes(savedAchievements) ==
    LET parsed == LoadAchievements(savedAchievements)
    IN  ~parsed.ok \/ ~parsed.array

\* What localStorage["snakeHighScore"] holds when the page loads.
SavedHighScores ==
    {Absent, Stored(<<"2", "0">>)}

\* no sampler is being followed
NoCall ==
    [fn |-> "none", pc |-> "idle", currentSnake |-> <<>>, currentObstacles |-> <<>>,
     count |-> 0, newObstacles |-> <<>>, draw |-> <<>>]

\* The state after the first render and its effects, for the two items the
\* page finds in localStorage.
InitWith(savedHighScore, savedAchievements) ==
    /\ snake = InitialSnake
    /\ food = InitialFood
    /\ obstacles = <<>>
    /\ direction = Right
    /\ nextDirection = Right
    /\ gameOver = FALSE
    /\ score = 0
    /\ lsHighScore = savedHighScore
    /\ highScore = LoadHighScore(savedHighScore)
    /\ level = 1
    /\ speed = INITIAL_SPEED
    /\ isPaused = FALSE
    /\ showLevelUp = FALSE
    /\ lsAchievements = savedAchievements
    /\ crashed = LoadCrashes(savedAchievements)
    /\ achievements = IF LoadCrashes(savedAchievements) THEN ACHIEVEMENTS
                      ELSE LoadAchievements(savedAchievements).value
    /\ timers = 0
    /\ toasts = [a \in AchIds |-> 0]
    /\ moves = 0
    /\ mounted = TRUE
    /\ intervals = IF LoadCrashes(savedAchievements) THEN <<>>
                   ELSE <<[delay |-> INITIAL_SPEED]>>

Init ==
    /\ \E savedHighScore \in SavedHighScores : InitWith(savedHighScore, Absent)
    /\ frame = NoCall

\* ----------------------------------------------------------------- reset
\* resetGame leaving the pause as it is
resetGame_KeepsPause(foodDraws) ==
    LET initialSnake == <<Pos(10, 10)>>
    IN  \E initialObstacles \in generateObstacles(0, initialSnake, <<>>) :
        \E newFood \in generateFood(initialSnake, initialObstacles, foodDraws) :
            /\ snake' = initialSnake
            /\ food' = newFood
            /\ obstacles' = initialObstacles
            /\ direction' = Right
            /\ nextDirection' = Right
            /\ gameOver' = FALSE
            /\ score' = 0
            /\ level' = 1
            /\ speed' = INITIAL_SPEED
            /\ showLevelUp' = FALSE
            /\ UNCHANGED <<highScore, achievements, timers, lsHighScore,
                           lsAchievements, toasts, moves, isPaused>>

\* resetGame, the onClick of the "Reiniciar" button
resetGame(foodDraws) ==
    LET initialSnake == <<Pos(10, 10)>>
    IN  \E initialObstacles \in generateObstacles(0, initialSnake, <<>>) :
        \E newFood \in generateFood(initialSnake, initialObstacles, foodDraws) :
            /\ snake' = initialSnake
            /\ food' = newFood
            /\ obstacles' = initialObstacles
            /\ direction' = Right
            /\ nextDirection' = Right
            /\ gameOver' = FALSE
            /\ score' = 0
            /\ level' = 1
            /\ speed' = INITIAL_SPEED
            /\ isPaused' = FALSE
            /\ showLevelUp' = FALSE
            /\ UNCHANGED <<highScore, achievements, timers, lsHighScore,
                           lsAchievements, toasts, moves>>

\* ------------------------------------------------------------- level up
\* the step without the floor
NextSpeed_NoFloor(prevSpeed) == prevSpeed - 20

NextSpeed(prevSpeed) == Max(50, prevSpeed - 20)

ObstacleCount(newLevel) == newLevel \div 2

\* levelUp, called from inside the tick: level and snake are the values of
\* the last render, i.e. the snake before this tick's move
levelUp(obstacleDraws) ==
    LET newLevel == level + 1
        obstacleCount == ObstacleCount(newLevel)
    IN  /\ level' = newLevel
        /\ speed' = NextSpeed(speed)
        /\ obstacles' \in generateObstacles(obstacleCount, snake, obstacleDraws)
        /\ showLevelUp' = TRUE
        /\ isPaused' = TRUE
        /\ timers' = timers + 1

\* the callback clearing the banner only
TimerFire_BannerOnly ==
    /\ timers > 0
    /\ timers' = timers - 1
    /\ showLevelUp' = FALSE
    /\ UNCHANGED <<snake, food, obstacles, direction, nextDirection, gameOver,
                   score, highScore, level, speed, achievements, lsHighScore,
                   lsAchievements, toasts, moves, isPaused>>
    /\ Rendered

\* the callback of levelUp's setTimeout(..., 2000)
TimerFire ==
    /\ timers > 0
    /\ timers' = timers - 1
    /\ showLevelUp' = FALSE
    /\ isPaused' = FALSE
    /\ UNCHANGED <<snake, food, obstacles, direction, nextDirection, gameOver,
                   score, highScore, level, speed, achievements, lsHighScore,
                   lsAchievements, toasts, moves>>
    /\ Rendered

\* ------------------------------------------------------------------ tick
NewHead == Add(snake[1], nextDirection)

\* the level test on every food
LevelThreshold_EveryFood(newScore) == newScore % 10 = 0 /\ newScore > 0

LevelThreshold(newScore) == newScore % 50 = 0 /\ newScore > 0

\* score >= highScore instead
NewRecord_Ge == ~highScore.nan /\ score >= highScore.n

\* the test score > highScore of the collision branch
NewRecord == JsGt(Num(score), highScore)

\* gameLoop's collision branch
TickCollide ==
    /\ gameOver' = TRUE
    /\ IF NewRecord
       THEN /\ highScore' = Num(score)
            /\ lsHighScore' = Stored(NumToString(score))
       ELSE UNCHANGED <<highScore, lsHighScore>>
    /\ UNCHANGED <<snake, food, obstacles, direction, nextDirection, score, level,
                   speed, isPaused, showLevelUp, achievements, timers,
                   lsAchievements, toasts>>

\* the score of a tick that eats, counting the level in
NewScore_ByLevel == score + 10 * level

\* const newScore = score + 10
NewScore == score + 10

\* gameLoop's food branch
TickEat(newSnake, foodDraws, obstacleDraws) ==
    LET newScore == NewScore
        ach == checkAchievements(AchState, newScore, level, Len(newSnake))
    IN  /\ score' = newScore
        /\ food' \in generateFood(newSnake, obstacles, foodDraws)
        /\ achievements' = ach.achs
        /\ lsAchievements' = ach.ls
        /\ toasts' = ach.shown
        /\ IF LevelThreshold(newScore)
           THEN levelUp(obstacleDraws)
           ELSE UNCHANGED <<level, speed, obstacles, showLevelUp, isPaused, timers>>
        /\ direction' = nextDirection
        /\ snake' = newSnake
        /\ UNCHANGED <<nextDirection, gameOver, highScore, lsHighScore>>

\* the plain move without the pop
TickMove_NoPop(newSnake) ==
    /\ snake' = newSnake
    /\ direction' = nextDirection
    /\ UNCHANGED <<food, obstacles, nextDirection, gameOver, score, highScore,
                   level, speed, isPaused, showLevelUp, achievements, timers,
                   lsHighScore, lsAchievements, toasts>>

\* gameLoop's plain move: newSnake.pop()
TickMove(newSnake) ==
    /\ snake' = SubSeq(newSnake, 1, Len(newSnake) - 1)
    /\ direction' = nextDirection
    /\ UNCHANGED <<food, obstacles, nextDirection, gameOver, score, highScore,
                   level, speed, isPaused, showLevelUp, achievements, timers,
                   lsHighScore, lsAchievements, toasts>>

\* the early return without the pause test
Suspended_GameOverOnly == gameOver

\* the early return without the gameOver test
Suspended_PausedOnly == isPaused

\* the test of gameLoop's early return
Suspended == gameOver \/ isPaused

\* gameLoop testing the food before the collision
gameLoop_FoodFirst(foodDraws, obstacleDraws) ==
    IF Suspended
    THEN UNCHANGED vars
    ELSE /\ moves' = moves + 1
         /\ LET head == NewHead
                newSnake == <<head>> \o snake
            IN  IF head = food
                THEN TickEat(newSnake, foodDraws, obstacleDraws)
                ELSE IF checkCollision(head, Tail(snake), obstacles)
                THEN TickCollide
                ELSE TickMove(newSnake)

\* gameLoop, the callback of the interval
gameLoop(foodDraws, obstacleDraws) ==
    IF Suspended
    THEN UNCHANGED vars
    ELSE /\ moves' = moves + 1
         /\ LET head == NewHead
                newSnake == <<head>> \o snake
            IN  IF checkCollision(head, Tail(snake), obstacles)
                THEN TickCollide
                ELSE IF head = food
                THEN TickEat(newSnake, foodDraws, obstacleDraws)
                ELSE TickMove(newSnake)

\* ------------------------------------------------------------------ keys
\* The keys the player presses: the arrows, some of their aliases, the space
\* bar and a key the listener has no case for.
Keys == {"ArrowUp", "ArrowDown", "ArrowLeft", "ArrowRight", "w", "S", " ", "Enter"}

\* the test made on nextDirection instead of direction
CanTurn_Pending(request) ==
    IF request[1] = 0 THEN nextDirection[2] = 0 ELSE nextDirection[1] = 0

\* The test of the arrow cases: ArrowUp/ArrowDown ask direction.y === 0,
\* ArrowLeft/ArrowRight ask direction.x === 0.
CanTurn(request) ==
    IF request[1] = 0 THEN direction[2] = 0 ELSE direction[1] = 0

Requested(key) ==
    CASE key \in {"ArrowUp", "w", "W"} -> Up
      [] key \in {"ArrowDown", "s", "S"} -> Down
      [] key \in {"ArrowLeft", "a", "A"} -> Left
      [] key \in {"ArrowRight", "d", "D"} -> Right

ArrowKeys ==
    {"ArrowUp", "w", "W", "ArrowDown", "s", "S",
     "ArrowLeft", "a", "A", "ArrowRight", "d", "D"}

\* handleKeyPress, the keydown listener
handleKeyPress(key) ==
    IF gameOver THEN UNCHANGED vars
    ELSE /\ IF key \in ArrowKeys
            THEN /\ nextDirection' =
                        IF CanTurn(Requested(key)) THEN Requested(key) ELSE nextDirection
                 /\ UNCHANGED isPaused
            ELSE IF key = " "
            THEN /\ isPaused' = ~isPaused
                 /\ UNCHANGED nextDirection
            ELSE UNCHANGED <<nextDirection, isPaused>>
         /\ UNCHANGED <<snake, food, obstacles, direction, gameOver, score,
                        highScore, level, speed, showLevelUp, achievements, timers,
                        lsHighScore, lsAchievements, toasts, moves>>

\* the onClick of the pause button, which is rendered only when !gameOver
PauseButton ==
    /\ ~gameOver
    /\ isPaused' = ~isPaused
    /\ UNCHANGED <<snake, food, obstacles, direction, nextDirection, gameOver,
                   score, highScore, level, speed, showLevelUp, achievements,
                   timers, lsHighScore, lsAchievements, toasts, moves>>
    /\ Rendered

\* ------------------------------------------------- the free player's game
\* The values of Math.random the model follows: a cell h and the cells next
\* to it.
Near(h) == ({h} \cup {Add(h, d) : d \in Dirs}) \cap Grid

\* a cell far from the start for the i-th obstacle
Far(i) == Pos(1 + i, 2)

MaxObstacles == 8

ObstacleDrawsNear(h) == [i \in 1..MaxObstacles |-> Near(h) \cup {Far(i)}]

Tick ==
    /\ moves < MaxMoves
    /\ gameLoop(Near(NewHead), ObstacleDrawsNear(NewHead))
    /\ Rendered

KeyPress ==
    /\ \E key \in Keys : handleKeyPress(key)
    /\ Rendered

Reset ==
    /\ resetGame(Near(Pos(10, 10)))
    /\ Rendered

Next ==
    \/ Tick
    \/ KeyPress
    \/ PauseButton
    \/ Reset
    \/ TimerFire

Spec == Init /\ [][Next]_vars

\* ---------------------------------------------- the food-chasing player's game
\* A longer game under a narrower environment: Math.random puts the food
\* right in front of the snake (next to it where the wall is in front), and
\* the player only presses the arrow keys that lead to the food.
Ahead(h, d) == IF Add(h, d) \in Grid THEN {Add(h, d)} ELSE Near(h)

ObstacleDrawsAhead(h) ==
    [i \in 1..MaxObstacles |-> {h, Add(h, nextDirection), Far(i)} \cap Grid]

ChaseKeys ==
    {k \in {"ArrowUp", "ArrowDown", "ArrowLeft", "ArrowRight"} :
        \/ k = "ArrowUp" /\ food[2] < snake[1][2]
        \/ k = "ArrowDown" /\ food[2] > snake[1][2]
        \/ k = "ArrowLeft" /\ food[1] < snake[1][1]
        \/ k = "ArrowRight" /\ food[1] > snake[1][1]}

ChaseTick ==
    /\ moves < MaxChaseMoves
    /\ gameLoop(Ahead(NewHead, nextDirection), ObstacleDrawsAhead(NewHead))
    /\ Rendered

ChaseKeyPress ==
    /\ \E key \in ChaseKeys \cup {" "} : handleKeyPress(key)
    /\ Rendered

\* this player restarts only after losing
ChaseReset ==
    /\ gameOver
    /\ resetGame(Ahead(Pos(10, 10), Right))
    /\ Rendered

ChaseNext ==
    \/ ChaseTick
    \/ ChaseKeyPress
    \/ PauseButton
    \/ ChaseReset
    \/ TimerFire

SpecChase == Init /\ [][ChaseNext]_vars

\* The free player's game in which a pending timeout does fire: the browser
\* runs the callback of setTimeout once its 2000 ms are over.
SpecTimer == Init /\ [][Next]_vars /\ WF_vars(TimerFire)

\* --------------------------------------------------- the roaming player's game
\* The food spawns in front of the snake as before, but the player presses
\* any arrow at any time, so the snake runs into the walls and coils onto
\* itself; nobody pauses or restarts.
RoamKeys == {"ArrowUp", "ArrowDown", "ArrowLeft", "ArrowRight"}

\* the obstacles also land two cells in front of the head, where the food
\* after the next is drawn
ObstacleDrawsRoam(h) ==
    [i \in 1..MaxObstacles |->
        {h, Add(h, nextDirection), Add(Add(h, nextDirection), nextDirection), Far(i)}
            \cap Grid]

RoamTick ==
    /\ moves < MaxRoamMoves
    /\ gameLoop(Ahead(NewHead, nextDirection), ObstacleDrawsRoam(NewHead))
    /\ Rendered

RoamKeyPress ==
    /\ \E key \in RoamKeys : handleKeyPress(key)
    /\ Rendered

RoamNext ==
    \/ RoamTick
    \/ RoamKeyPress
    \/ TimerFire

SpecRoam == Init /\ [][RoamNext]_vars

\* ------------------------------------------ the page loaded on any storage
\* What the two items can hold when the page loads: nothing, what the game
\* itself wrote, or something else.
AnySavedHighScores ==
    {Absent, Stored(<<"2", "0">>), Stored(<<"a", "b", "c">>), Stored(<<>>)}

AnySavedAchievements ==
    {Absent,
     Stored(JsonStringify([ACHIEVEMENTS EXCEPT ![1].unlocked = TRUE])),
     Stored(<<"[", "{">>),
     Stored(<<"null">>)}

InitLoad ==
    /\ \E savedHighScore \in AnySavedHighScores :
          \E savedAchievements \in AnySavedAchievements :
             InitWith(savedHighScore, savedAchievements)
    /\ frame = NoCall

\* The food-chasing player again; no handler runs once the component is
\* unmounted.
LoadTick ==
    /\ ~crashed
    /\ moves < MaxLoadMoves
    /\ gameLoop(Ahead(NewHead, nextDirection), ObstacleDrawsAhead(NewHead))
    /\ Rendered

LoadKeyPress ==
    /\ ~crashed
    /\ \E key \in ChaseKeys \cup {" "} : handleKeyPress(key)
    /\ Rendered

LoadTimerFire ==
    /\ ~crashed
    /\ TimerFire

LoadNext ==
    \/ LoadTick
    \/ LoadKeyPress
    \/ LoadTimerFire

SpecLoad == InitLoad /\ [][LoadNext]_vars

\* --------------------------------------------- the interval and the unmount
\* The food-chasing player again, the ticks being those a live interval
\* delivers, until the component is unmounted: React then runs the cleanup
\* of the interval effect and removes the keydown listener; the timeout of a
\* level-up is not cleared, its callback sets the state of a component that
\* is gone.
Unmount ==
    /\ mounted
    /\ mounted' = FALSE
    /\ intervals' = ClearInterval(intervals)
    /\ UNCHANGED <<snake, food, obstacles, direction, nextDirection, gameOver,
                   score, highScore, level, speed, isPaused, showLevelUp,
                   achievements, timers, lsHighScore, lsAchievements, toasts,
                   moves, crashed, frame>>

IntervalTick ==
    /\ mounted
    /\ \E i \in 1..Len(intervals) : intervals[i].delay = speed
    /\ moves < MaxIntervalMoves
    /\ gameLoop(Ahead(NewHead, nextDirection), ObstacleDrawsAhead(NewHead))
    /\ Rendered

IntervalKeyPress ==
    /\ mounted
    /\ \E key \in ChaseKeys \cup {" "} : handleKeyPress(key)
    /\ Rendered

IntervalTimerFire ==
    /\ mounted
    /\ TimerFire

IntervalNext ==
    \/ IntervalTick
    \/ IntervalKeyPress
    \/ IntervalTimerFire
    \/ Unmount

SpecInterval == Init /\ [][IntervalNext]_vars

\* ------------------------------------------------- the samplers, loop by loop
\* generateFood and generateObstacles followed one loop iteration at a time,
\* Math.random yielding any cell of the grid.  frame holds the arguments and
\* the locals of the call: pc "draw" is the body of the do-while, "while" its
\* condition, "return" the return statement.
FoodCall(currentSnake, currentObstacles) ==
    [fn |-> "generateFood", pc |-> "draw", currentSnake |-> currentSnake,
     currentObstacles |-> currentObstacles, count |-> 0, newObstacles |-> <<>>,
     draw |-> <<>>]

\* for (let i = 0; i < count; i++): no iteration when count is 0
ObstaclesCall(count, currentSnake) ==
    [fn |-> "generateObstacles", pc |-> IF 0 < count THEN "draw" ELSE "return",
     currentSnake |-> currentSnake, currentObstacles |-> <<>>, count |-> count,
     newObstacles |-> <<>>, draw |-> <<>>]

\* the k-th cell of the grid walked row by row, alternating the direction
Serpentine(k) ==
    LET row == (k - 1) \div GRID_SIZE
        col == (k - 1) % GRID_SIZE
    IN  Pos(IF row % 2 = 0 THEN col ELSE GRID_SIZE - 1 - col, row)

\* a snake on the first n cells of that walk, and the rest of the grid
Coil(n) == [k \in 1..n |-> Serpentine(k)]

Rest(n) == [k \in 1..(GRID_SIZE * GRID_SIZE - n) |-> Serpentine(n + k)]

\* The calls followed: the food of a new game; the food for a snake of 364
\* segments whose 36 obstacles (level 73) fill the rest of the grid; two
\* obstacles around a new snake; three obstacles around a snake that leaves
\* two cells free.
SampleCalls ==
    {FoodCall(InitialSnake, <<>>),
     FoodCall(Coil(364), Rest(364)),
     ObstaclesCall(2, Coil(398)),
     ObstaclesCall(3, Coil(398))}

InitSample ==
    /\ InitWith(Absent, Absent)
    /\ frame \in SampleCalls

game == <<snake, food, obstacles, direction, nextDirection, gameOver, score,
          highScore, level, speed, isPaused, showLevelUp, achievements, timers,
          lsHighScore, lsAchievements, toasts, moves, crashed, intervals,
          mounted>>

\* the body of either do-while: a cell from Math.random
SampleDraw ==
    /\ frame.pc = "draw"
    /\ \E c \in Grid : frame' = [frame EXCEPT !.draw = c, !.pc = "while"]
    /\ UNCHANGED game

\* generateFood's while condition, and the return when it is false
SampleFoodWhile ==
    /\ frame.pc = "while"
    /\ frame.fn = "generateFood"
    /\ frame' =
          IF \/ frame.draw \in Cells(frame.currentSnake)
             \/ frame.draw \in Cells(frame.currentObstacles)
          THEN [frame EXCEPT !.pc = "draw"]
          ELSE [frame EXCEPT !.pc = "return"]
    /\ UNCHANGED game

\* generateObstacles' while condition; when it is false the push, i++ and the
\* test of the for loop
SampleObstacleWhile ==
    /\ frame.pc = "while"
    /\ frame.fn = "generateObstacles"
    /\ frame' =
          IF \/ frame.draw \in Cells(frame.currentSnake)
             \/ frame.draw \in Cells(frame.newObstacles)
          THEN [frame EXCEPT !.pc = "draw"]
          ELSE [frame EXCEPT
                   !.newObstacles = Append(frame.newObstacles, frame.draw),
                   !.pc = IF Len(frame.newObstacles) + 1 < frame.count
                          THEN "draw" ELSE "return"]
    /\ UNCHANGED game

SampleNext ==
    \/ SampleDraw
    \/ SampleFoodWhile
    \/ SampleObstacleWhile

\* The call runs on the one JS thread: its next statement is always taken.
SpecSample == InitSample /\ [][SampleNext]_vars /\ WF_vars(SampleNext)

\* ================================================================ claims
\* A step that gameLoop took past its early return.
TickStep == moves' # moves

\* A step of resetGame, whatever cell of the grid it drew for the food.
ResetStep == food' \in Grid /\ resetGame({food'})

\* Math.max on numbers that may be NaN
JsMax(a, b) == IF a.nan \/ b.nan THEN NaN ELSE Num(Max(a.n, b.n))

\* C1: in no reachable state does an obstacle occupy a cell of the snake (the
\* obstacles a level-up places are disjoint from the snake the same tick
\* produced, new head included).
C1_ObstaclesOffSnake == Cells(obstacles) \cap Cells(snake) = {}

\* C2: while showLevelUp is true no tick gets past the pause check: no tick
\* moves the snake, changes score or food, or ends the game.
C2_NoTickInTransition ==
    [][(showLevelUp /\ TickStep) =>
          (snake' = snake /\ score' = score /\ food' = food /\ gameOver' = gameOver)]_vars

\* C3: once gameOver is true, a step is a reset, the expiry of a level-up
\* timer, or changes nothing at all: ticks, direction requests and pause
\* toggles have no effect, and only a reset makes gameOver false again.
C3_GameOverTerminal ==
    [][gameOver =>
          \/ ResetStep
          \/ TimerFire
          \/ UNCHANGED vars]_vars

C3_Witness == gameOver /\ score > 0 /\ ~isPaused /\ Len(snake) > 1

\* C4: a tick of a running game whose new head collides sets gameOver, leaves
\* snake, food, obstacles, score, level, speed and direction as they were,
\* makes highScore the maximum of the previous highScore and score, and
\* stores the score under "snakeHighScore" exactly when score was greater
\* than the previous highScore.
C4_CollisionTick ==
    [][(~gameOver /\ ~isPaused /\ TickStep
            /\ checkCollision(NewHead, Tail(snake), obstacles)) =>
          /\ gameOver'
          /\ UNCHANGED <<snake, food, obstacles, score, level, speed, direction>>
          /\ highScore' = JsMax(highScore, Num(score))
          /\ lsHighScore' = IF JsGt(Num(score), highScore)
                            THEN Stored(NumToString(score))
                            ELSE lsHighScore]_vars

C4_Witness ==
    /\ gameOver
    /\ score > 0
    /\ highScore = Num(score)
    /\ lsHighScore = Stored(NumToString(score))

\* C5: level = 1 + floor(score / 50) before and after every step; a step
\* changes level only by a reset or by a tick that adds 10 to the score and
\* lands on a positive multiple of 50, which raises it by exactly 1; and
\* every such tick does raise it.
C5_LevelFollowsScore ==
    [][/\ level = 1 + score \div 50
       /\ level' = 1 + score' \div 50
       /\ level' # level =>
             \/ ResetStep
             \/ /\ TickStep
                /\ NewHead = food
                /\ score' = score + 10
                /\ score' % 50 = 0
                /\ level' = level + 1
       /\ (TickStep /\ score' = score + 10 /\ score' % 50 = 0) => level' = level + 1]_vars

C5_Witness == level = 3 /\ score = 100

\* C6: speed = max(50, 150 - 20 * (level - 1)) in every state.
C6_SpeedCurve == speed = Max(50, 150 - 20 * (level - 1))

C6_Witness == level >= 7 /\ speed = 50

\* C7: the obstacles are pairwise distinct and there are floor(level / 2) of
\* them in every state (none after a reset, floor(newLevel / 2) fresh ones
\* after a level-up).
C7_ObstacleCount ==
    /\ Len(obstacles) = level \div 2
    /\ \A i, j \in 1..Len(obstacles) : i # j => obstacles[i] # obstacles[j]

C7_Witness == level >= 4 /\ Len(obstacles) >= 2 /\ ~gameOver

Perpendicular(a, b) == a[1] * b[1] + a[2] * b[2] = 0

Reverse(d) == <<0 - d[1], 0 - d[2]>>

Axis(d) == IF d[2] = 0 THEN "x" ELSE "y"

\* pendingDirection is the active direction or perpendicular to it, never
\* its reverse, and the next head is not the snake's neck
NoReversal ==
    /\ direction \in Dirs
    /\ nextDirection \in Dirs
    /\ nextDirection = direction \/ Perpendicular(nextDirection, direction)
    /\ nextDirection # Reverse(direction)
    /\ Len(snake) >= 2 => NewHead # snake[2]

\* C8: pendingDirection changes only by a reset or to a direction whose axis
\* differs from the active direction's; so, before and after every step, it
\* is the active direction or perpendicular to it, never its reverse, and the
\* next head is never the snake's neck.
C8_NoReversal ==
    [][/\ NoReversal
       /\ NoReversal'
       /\ nextDirection' # nextDirection =>
             \/ ResetStep
             \/ Axis(nextDirection') # Axis(direction)]_vars

C8_Witness ==
    /\ Len(snake) >= 2
    /\ Perpendicular(nextDirection, direction)
    /\ moves >= 2

\* C9: a step leaves the snake's length as it is, unless it is a tick that
\* eats (new head on the food, score + 10), which adds exactly 1, or a reset,
\* which sets it to 1; and a tick that does not collide grows the snake iff
\* its new head is on the food.
C9_Length ==
    [][/\ \/ Len(snake') = Len(snake)
          \/ /\ TickStep
             /\ NewHead = food
             /\ score' = score + 10
             /\ Len(snake') = Len(snake) + 1
          \/ ResetStep /\ Len(snake') = 1
       /\ (TickStep /\ ~gameOver') =>
             Len(snake') = Len(snake) + (IF NewHead = food THEN 1 ELSE 0)]_vars

C9_Witness == Len(snake) >= 3 /\ score = 10 * (Len(snake) - 1) /\ moves > Len(snake)

\* C10: a tick of a running game whose new head does not collide gives, when
\* the new head is on the food, the new head in front of the whole previous
\* snake, score + 10 and a food off the new snake; otherwise the new head in
\* front of the previous snake without its last segment, with score and food
\* as they were; and the active direction becomes pendingDirection.
C10_Tick ==
    [][(~gameOver /\ ~isPaused /\ TickStep
            /\ ~checkCollision(NewHead, Tail(snake), obstacles)) =>
          /\ IF NewHead = food
             THEN /\ snake' = <<NewHead>> \o snake
                  /\ score' = score + 10
                  /\ food' \notin Cells(snake')
             ELSE /\ snake' = <<NewHead>> \o SubSeq(snake, 1, Len(snake) - 1)
                  /\ score' = score
                  /\ food' = food
          /\ direction' = nextDirection]_vars

C10_Witness ==
    /\ snake = <<Pos(11, 10), Pos(10, 10)>>
    /\ score = 10
    /\ food \notin {Pos(11, 10), Pos(10, 10)}

\* The heads checkCollision is asked about in a state: the row and the column
\* of the snake's head, one cell beyond the walls included, the cells of the
\* snake and of the obstacles, and the cell (GRID_SIZE, 5).
ProbeHeads ==
    {<<x, snake[1][2]>> : x \in -1..GRID_SIZE}
        \cup {<<snake[1][1], y>> : y \in -1..GRID_SIZE}
        \cup Cells(snake) \cup Cells(obstacles) \cup {Pos(GRID_SIZE, 5)}

\* C11: checkCollision(head, body, obstacles) is true exactly when head.x or
\* head.y is outside 0..GRID_SIZE-1, or head is a cell of body, or head is a
\* cell of obstacles; it is false otherwise.
C11_Collision ==
    \A head \in ProbeHeads :
        checkCollision(head, Tail(snake), obstacles)
            <=> \/ head[1] \notin 0..(GRID_SIZE - 1)
                \/ head[2] \notin 0..(GRID_SIZE - 1)
                \/ head \in Cells(Tail(snake))
                \/ head \in Cells(obstacles)

C11_Witness ==
    /\ Len(snake) >= 3
    /\ Len(obstacles) >= 1
    /\ checkCollision(Pos(GRID_SIZE, 5), Tail(snake), obstacles)
    /\ checkCollision(snake[3], Tail(snake), obstacles)
    /\ checkCollision(obstacles[1], Tail(snake), obstacles)
    /\ ~checkCollision(food, Tail(snake), obstacles)

\* C12: score is a non-negative multiple of 10 before and after every step,
\* and a step other than a reset leaves it as it is or adds exactly 10.
C12_Score ==
    [][/\ score >= 0 /\ score % 10 = 0
       /\ score' >= 0 /\ score' % 10 = 0
       /\ \/ score' = score
          \/ score' = score + 10
          \/ ResetStep]_vars

C12_Witness == level >= 2 /\ score % 50 = 20 /\ Len(snake) = 1 + score \div 10

\* A tick that ate: gameLoop's food branch ran.
EatStep == TickStep /\ score' = score + 10

\* C13: whenever the food is placed, by a reset or by a tick that eats, the
\* new food cell is no segment of the snake the step produces and no obstacle
\* of the set the placement is made against: the obstacles of the state the
\* tick started in, the empty set of the reset.
C13_FoodFree ==
    [][(ResetStep \/ EatStep) =>
          /\ food' \in Grid
          /\ food' \notin Cells(snake')
          /\ food' \notin Cells(IF EatStep THEN obstacles ELSE obstacles')]_vars

\* a food placed in front of the snake while an obstacle stays where it is
C13_Witness ==
    /\ Len(obstacles) >= 1
    /\ score % 50 = 10
    /\ ~gameOver
    /\ food = Add(snake[1], direction)
    /\ food \notin Cells(snake) \cup Cells(obstacles)

\* C16: a step keeps the achievement records in place, never locks an
\* unlocked one, and shows the unlock toast of an id exactly when its record
\* goes from locked to unlocked; so no id is notified more than once, across
\* ticks, game overs and resets.
C16_Unlocks ==
    [][/\ Len(achievements') = Len(achievements)
       /\ \A i \in 1..Len(achievements) :
             LET a == achievements[i]
                 b == achievements'[i]
             IN  /\ b.id = a.id
                 /\ a.unlocked => b.unlocked
                 /\ toasts'[a.id] =
                        toasts[a.id] + (IF ~a.unlocked /\ b.unlocked THEN 1 ELSE 0)
                 /\ toasts'[a.id] <= 1]_vars

\* a second game that got to 60 after a game over at 50
C16_Witness ==
    /\ score = 60
    /\ highScore = Num(50)
    /\ toasts["score_50"] = 1
    /\ toasts["first_food"] = 1

\* C17: after every step in which a record goes from locked to unlocked, the
\* item "snakeAchievements" is the text of the whole array of seven records
\* as the step leaves it.
C17_Stored ==
    [][(\E i \in 1..Len(achievements) :
           ~achievements[i].unlocked /\ achievements'[i].unlocked) =>
          /\ Len(achievements') = 7
          /\ lsAchievements' = Stored(JsonStringify(achievements'))
          /\ JsonParse(lsAchievements'.value) =
                [ok |-> TRUE, array |-> TRUE, value |-> achievements']]_vars

C17_Witness ==
    /\ score = 50
    /\ achievements[2].unlocked
    /\ ~achievements[3].unlocked
    /\ lsAchievements = Stored(JsonStringify(achievements))

\* C18: a reset, from whatever state, gives the one-segment snake at (10,10)
\* heading right with pendingDirection right, no obstacles, score 0, level 1,
\* speed 150, not paused, not over, no level-up banner, and a food in the
\* grid other than (10,10); highScore and the achievements stay as they were.
C18_Reset ==
    [][ResetStep =>
          /\ snake' = <<Pos(10, 10)>>
          /\ direction' = Pos(1, 0)
          /\ nextDirection' = Pos(1, 0)
          /\ obstacles' = <<>>
          /\ score' = 0
          /\ level' = 1
          /\ speed' = 150
          /\ ~isPaused'
          /\ ~gameOver'
          /\ ~showLevelUp'
          /\ food' \in Grid \ {Pos(10, 10)}
          /\ UNCHANGED <<highScore, achievements>>]_vars

\* after a reset made during a level-up: the timeout is still pending
C18_Witness ==
    /\ snake = <<Pos(10, 10)>>
    /\ score = 0
    /\ level = 1
    /\ obstacles = <<>>
    /\ timers > 0
    /\ ~isPaused
    /\ ~showLevelUp
    /\ achievements[2].unlocked

\* C19: while isPaused is true (the player's pause or a level-up) no tick gets
\* past the early return, and a step that is not a reset leaves snake, food,
\* obstacles, score, level, speed, direction, highScore and gameOver as they
\* were; pendingDirection changes by a key press only.
C19_PausedTick ==
    [][isPaused =>
          /\ ~TickStep
          /\ \/ ResetStep
             \/ UNCHANGED <<snake, food, obstacles, score, level, speed, direction,
                            highScore, gameOver>>]_vars

\* a game the player paused, with ticks left to run
C19_Witness ==
    /\ isPaused
    /\ ~showLevelUp
    /\ ~gameOver
    /\ timers = 0
    /\ score > 0
    /\ moves < MaxMoves

\* C20: the snake has at least one segment, every segment is a cell of the
\* grid, and no two segments are the same cell.
C20_Snake ==
    /\ Len(snake) >= 1
    /\ \A i \in 1..Len(snake) : snake[i] \in Grid
    /\ \A i, j \in 1..Len(snake) : i # j => snake[i] # snake[j]

\* a game that ended with the snake about to bite itself
C20_Witness ==
    /\ Len(snake) >= 5
    /\ gameOver
    /\ NewHead \in Grid
    /\ NewHead \in Cells(Tail(snake))

\* the item holds a number / the text of an array
Numeric(item) == Truthy(item) /\ ~ParseInt(item.value).nan

Parsable(item) ==
    Truthy(item) /\ JsonParse(item.value).ok /\ JsonParse(item.value).array

\* C15: the load raises no error; before the first tick, when the item
\* "snakeHighScore" is absent or holds no number, highScore is 0, and when
\* the item "snakeAchievements" is absent or holds no array, the achievements
\* are the seven locked records; and a game over with score > 0 leaves
\* highScore at least that score.
C15_LoadDegrades ==
    /\ ~crashed
    /\ (moves = 0 /\ ~Numeric(lsHighScore)) => highScore = Num(0)
    /\ (moves = 0 /\ ~Parsable(lsAchievements)) => achievements = ACHIEVEMENTS
    /\ (gameOver /\ score > 0) => (~highScore.nan /\ highScore.n >= score)

\* no cell of the grid can end the do-while the call is in
NoCandidate ==
    /\ frame.pc \in {"draw", "while"}
    /\ Grid \subseteq Cells(frame.currentSnake) \cup Cells(frame.currentObstacles)
                        \cup Cells(frame.newObstacles)

\* C14: when no cell of the grid satisfies the exclusion constraints of a
\* sampler (snake and obstacles cover the grid, or fewer free cells are left
\* than obstacles are asked for), the call does not loop forever: it leaves
\* its do-while, with a failure or a return.
C14_SamplingStops == NoCandidate ~> (frame.pc \notin {"draw", "while"})

\* C21: every level-up is followed, once its timeout has fired, by a state in
\* which showLevelUp and isPaused are both false, whatever the player does
\* or does not do.
C21_TransitionEnds == showLevelUp ~> (~showLevelUp /\ ~isPaused)

\* a level-up whose timeout has fired, the player having pressed nothing since
C21_Witness ==
    /\ level = 2
    /\ score = 50
    /\ timers = 0
    /\ ~showLevelUp
    /\ ~isPaused
    /\ ~gameOver

\* C23: a tick whose new head is the food cell while an obstacle lies on that
\* cell is a collision: gameOver becomes true, the score and the snake stay
\* as they were.  (The witness is such a tick: a level-up does leave an
\* obstacle on the food.)
C23_ObstacleOnFood ==
    [][(TickStep /\ NewHead = food /\ food \in Cells(obstacles)) =>
          /\ gameOver'
          /\ score' = score
          /\ snake' = snake
          /\ food' = food]_vars

C23_Witness ==
    /\ gameOver
    /\ moves > 0
    /\ NewHead = food
    /\ food \in Cells(obstacles)
    /\ food \notin Cells(snake)

\* A step in which a level-up timeout fired.
TimerStep == timers' = timers - 1

\* C24: the expiry of a level-up timeout changes isPaused and showLevelUp
\* only when it ends the transition of its own level-up, i.e. when the banner
\* is up and no other timeout is pending: it leaves both flags alone when a
\* later level-up has armed another timeout, and when the banner is down
\* (the game was reset after the timeout was armed, and the pause is the
\* player's own).
C24_OwnTransitionOnly ==
    [][TimerStep =>
          \/ showLevelUp /\ timers = 1
          \/ UNCHANGED <<isPaused, showLevelUp>>]_vars

\* the record of that id is unlocked
Unlocked(id) ==
    \E i \in 1..Len(achievements) : achievements[i].id = id /\ achievements[i].unlocked

\* C25: in every state level >= 5 implies that level_5 is unlocked and
\* level >= 10 that level_10 is unlocked, the state right after the tick that
\* raised the level to 5 or to 10 included.
C25_LevelAchievements ==
    /\ level >= 5 => Unlocked("level_5")
    /\ level >= 10 => Unlocked("level_10")

\* the predicate of an achievement id, on a score, a level and a length
Earned(id, s, l, n) ==
    CASE id = "first_food" -> s >= 10
      [] id = "score_50" -> s >= 50
      [] id = "score_100" -> s >= 100
      [] id = "score_200" -> s >= 200
      [] id = "level_5" -> l >= 5
      [] id = "level_10" -> l >= 10
      [] id = "long_snake" -> n >= 15

\* C26: after every step each score-based or length-based achievement whose
\* predicate holds is unlocked (score >= 10 first_food, >= 50 score_50,
\* >= 100 score_100, >= 200 score_200, length >= 15 long_snake); and a record
\* goes from locked to unlocked only in a step in which its predicate holds,
\* on the score and length the step leaves, or on the level it started with.
C26_ScoreAchievements ==
    [][/\ \A id \in {"first_food", "score_50", "score_100", "score_200", "long_snake"} :
             Earned(id, score', level', Len(snake')) => Unlocked(id)'
       /\ \A i \in 1..Len(achievements) :
             (~achievements[i].unlocked /\ achievements'[i].unlocked) =>
                 /\ TickStep
                 /\ Earned(achievements[i].id, score', level, Len(snake'))]_vars

C26_Witness ==
    /\ score = 200
    /\ Len(snake) = 21
    /\ Unlocked("score_200")
    /\ Unlocked("long_snake")
    /\ ~Unlocked("level_5")

\* C22: at most one interval is live at any time, it was created with the
\* current speed (the one of an earlier speed was cleared before the new one
\* was started), and none is left once the component is unmounted; so no
\* tick comes from a timer created for an earlier speed.
C22_OneInterval ==
    /\ Len(intervals) <= 1
    /\ \A i \in 1..Len(intervals) : intervals[i].delay = speed
    /\ ~mounted => intervals = <<>>
    /\ (mounted /\ ~crashed) => intervals # <<>>

\* unmounted after a level-up had changed the speed
C22_Witness ==
    /\ ~mounted
    /\ level = 2
    /\ speed = 130
    /\ intervals = <<>>

====
